---------------------------- MODULE Spec2Model ----------------------------
(***************************************************************************)
(* Automated daily financial reconciliation: src/src/main.py (normalizer,  *)
(* matcher, classifier, main workflow) and src/src/alerts.py (alert task). *)
(*                                                                         *)
(* A DataFrame is a record [columns, rows]: the set of its column labels   *)
(* and the sequence of its rows, each row a function from the labels to    *)
(* cell values.  Every cell value is a string; "NaN" is pandas' missing    *)
(* value and "NaT" its missing timestamp.  Column labels are real strings, *)
(* so str.strip, str.lower and the merge suffixes act on characters.       *)
(***************************************************************************)
EXTENDS Naturals, Sequences, FiniteSets

VARIABLES
  pc,             \* position of the __main__ workflow
  db_df,          \* the DataFrame object load_database_data returned
  csv_df,         \* the DataFrame object load_csv_data returned
  db_df_clean,    \* clean_and_transform(db_df, db_column_map, date_columns)
  csv_df_clean,   \* clean_and_transform(csv_df, csv_column_map, date_columns)
  merged_df,      \* merge_dataframes(db_df_clean, csv_df_clean, merge_key)
  discrepancies,  \* identify_discrepancies(merged_df, ...)
  log,            \* records written through logging, oldest first
  exc,            \* the exception in flight or handled, NoExc when none
  exit_status,    \* "running", or the process exit status once it ended
  artifact,       \* the Excel report on disk, NoArtifact when none
  clean_pc,       \* normalizer run: position
  df,             \* normalizer run: the DataFrame object passed as argument
  column_map,     \* normalizer run: the rename mapping passed
  clean_ret,      \* normalizer run: the returned DataFrame
  reclean_ret,    \* normalizer run: clean_and_transform applied to clean_ret
  alert_pc,       \* send_alert_email: position
  subject,        \* send_alert_email: argument
  body,           \* send_alert_email: argument
  loop,           \* "running" when the caller is inside a running event loop
  task,           \* the coroutine _send(): "none", "pending", "sent", "failed"
  alert_log,      \* records send_alert_email wrote through logging
  alert_raised,   \* TRUE when an exception left send_alert_email
  outbox          \* the messages aiosmtplib.send delivered

wfVars == <<pc, db_df, csv_df, db_df_clean, csv_df_clean, merged_df,
            discrepancies, log, exc, exit_status, artifact>>
cleanVars == <<clean_pc, df, column_map, clean_ret, reclean_ret>>
alertVars == <<alert_pc, subject, body, loop, task, alert_log, alert_raised,
               outbox>>
vars == <<wfVars, cleanVars, alertVars>>

-----------------------------------------------------------------------------
(* Bounds of the model.                                                    *)

\* rows of the ledger set plus rows of the report set, in a matcher run
MaxJoinRows == 3
\* rows of each loaded set in a run of the whole workflow
MaxRows == 1
\* rows of the record set in a normalizer run
MaxCleanRows == 2

BoundedSeq(S, n) == UNION {[1..k -> S] : k \in 0..n}

Range(s) == {s[i] : i \in 1..Len(s)}

-----------------------------------------------------------------------------
(* Cell values.                                                            *)

NaN == "NaN"
NaT == "NaT"

\* pandas' elementwise comparisons: a missing value is unequal to everything,
\* itself included.
PdEq(a, b) == a # NaN /\ b # NaN /\ a = b
PdNe(a, b) == ~PdEq(a, b)

-----------------------------------------------------------------------------
(* Strings: str.strip and str.lower.                                       *)

Whitespace == {" ", "\t"}

LowerChar(ch) ==
  CASE ch = "A" -> "a" [] ch = "B" -> "b" [] ch = "C" -> "c" [] ch = "D" -> "d"
    [] ch = "E" -> "e" [] ch = "F" -> "f" [] ch = "G" -> "g" [] ch = "H" -> "h"
    [] ch = "I" -> "i" [] ch = "J" -> "j" [] ch = "K" -> "k" [] ch = "L" -> "l"
    [] ch = "M" -> "m" [] ch = "N" -> "n" [] ch = "O" -> "o" [] ch = "P" -> "p"
    [] ch = "Q" -> "q" [] ch = "R" -> "r" [] ch = "S" -> "s" [] ch = "T" -> "t"
    [] ch = "U" -> "u" [] ch = "V" -> "v" [] ch = "W" -> "w" [] ch = "X" -> "x"
    [] ch = "Y" -> "y" [] ch = "Z" -> "z" [] OTHER -> ch

RECURSIVE StrLower(_)
StrLower(s) ==
  IF Len(s) = 0 THEN s ELSE LowerChar(SubSeq(s, 1, 1)) \o StrLower(Tail(s))

RECURSIVE LStrip(_)
LStrip(s) ==
  IF Len(s) > 0 /\ SubSeq(s, 1, 1) \in Whitespace THEN LStrip(Tail(s)) ELSE s

RECURSIVE RStrip(_)
RStrip(s) ==
  IF Len(s) > 0 /\ SubSeq(s, Len(s), Len(s)) \in Whitespace
  THEN RStrip(SubSeq(s, 1, Len(s) - 1))
  ELSE s

StrStrip(s) == RStrip(LStrip(s))

\* df.columns.str.strip().str.lower(), on one label
NormalizeLabel(c) == StrLower(StrStrip(c))

-----------------------------------------------------------------------------
(* pd.to_datetime(..., errors='coerce') on one cell.  A parsed timestamp   *)
(* is the text "Timestamp:" followed by its ISO date; the inputs drawn are *)
(* ISO dates (YYYY-MM-DD), text that is no date, and missing values.       *)

Digits == {"0", "1", "2", "3", "4", "5", "6", "7", "8", "9"}
Months == {"01", "02", "03", "04", "05", "06", "07", "08", "09", "10", "11", "12"}
Days == ({d1 \o d2 : d1 \in {"0", "1", "2"}, d2 \in Digits} \ {"00"}) \cup {"30", "31"}

IsIsoDate(v) ==
  /\ Len(v) = 10
  /\ \A i \in {1, 2, 3, 4} : SubSeq(v, i, i) \in Digits
  /\ SubSeq(v, 5, 5) = "-"
  /\ SubSeq(v, 6, 7) \in Months
  /\ SubSeq(v, 8, 8) = "-"
  /\ SubSeq(v, 9, 10) \in Days

IsTimestamp(v) == Len(v) > 10 /\ SubSeq(v, 1, 10) = "Timestamp:"

ToDatetimeBroken(v) == IF IsIsoDate(v) THEN "Timestamp:" \o v ELSE NaT

ToDatetime(v) ==
  IF IsTimestamp(v) THEN v
  ELSE IF IsIsoDate(v) THEN "Timestamp:" \o v
  ELSE NaT

-----------------------------------------------------------------------------
(* DataFrames.                                                             *)

NoFrame == [columns |-> {}, rows |-> <<>>]

\* The labels of frame replaced by relabel[label]; relabel is one-to-one on
\* the labels of every frame drawn (see WellFormed).
RelabelFrame(frame, relabel) ==
  LET pairs == {<<c, relabel[c]>> : c \in frame.columns}
      new == {p[2] : p \in pairs}
      old(c2) == (CHOOSE p \in pairs : p[2] = c2)[1]
  IN [columns |-> new,
      rows |-> [i \in 1..Len(frame.rows) |->
                  [c2 \in new |-> frame.rows[i][old(c2)]]]]

db_column_map ==
  [transaction_id |-> "transaction_id", amount |-> "amount",
   status |-> "status", date |-> "date"]

csv_column_map ==
  [payment_gateway_id |-> "transaction_id", charged_amount |-> "amount",
   status |-> "status", transaction_date |-> "date"]

date_columns == <<"date">>
merge_key == "transaction_id"
amount_col_db == "amount_db"
amount_col_csv == "amount_csv"
status_col_db == "status_db"

\* DataFrame.rename(columns=map), on one label
RenameLabel(c, map) == IF c \in DOMAIN map THEN map[c] ELSE c

\* clean_and_transform: [arg |-> the argument object after the call,
\*                       ret |-> the DataFrame returned]
clean_and_transform(frame, map, dates) ==
  LET stripped ==
        RelabelFrame(frame, [c \in frame.columns |-> NormalizeLabel(c)])
      renamed ==
        RelabelFrame(stripped, [c \in stripped.columns |-> RenameLabel(c, map)])
      parsed ==
        [renamed EXCEPT !.rows =
           [i \in 1..Len(renamed.rows) |->
              [c \in renamed.columns |->
                 IF c \in Range(dates)
                 THEN ToDatetime(renamed.rows[i][c])
                 ELSE renamed.rows[i][c]]]]
  IN [arg |-> stripped, ret |-> parsed]

\* The label a raw column ends under: what decides the values it holds.
Canonical(c, map) == RenameLabel(NormalizeLabel(c), map)

\* A frame clean_and_transform and pd.merge handle without a duplicate label.
WellFormed(cols, map) ==
  \A c1, c2 \in cols : Canonical(c1, map) = Canonical(c2, map) => c1 = c2

\* The cell a raw row holds in the column that ends under label kind.
CellOf(kind, k, a, s, d) ==
  CASE kind = "transaction_id" -> k
    [] kind = "amount" -> a
    [] kind = "status" -> s
    [] kind = "date" -> d
    [] kind \in {"sale_date", "transaction_date"} -> "2024-01-15"
    [] OTHER -> "P001"

\* The raw rows over the labels cols with key, amount, status and date cells
\* drawn from K, A, S and D.
RowsOver(cols, map, K, A, S, D) ==
  LET kinds == {<<c, Canonical(c, map)>> : c \in cols}
      kind(c) == (CHOOSE p \in kinds : p[1] = c)[2]
  IN {[c \in cols |-> CellOf(kind(c), k, a, s, d)] :
        k \in K, a \in A, s \in S, d \in D}

FramesOver(cols, map, K, A, S, D, n) ==
  {[columns |-> cols, rows |-> r] : r \in BoundedSeq(RowsOver(cols, map, K, A, S, D), n)}


-----------------------------------------------------------------------------
(* The matcher: pd.merge(db_df, csv_df, how='outer', on=on,                *)
(* suffixes=('_db', '_csv'), indicator=True).                              *)

\* The key values in the order an outer join sorts them.
SortedKeys == <<"T1", "T2", "T3">>

\* The label a column of one side gets in the join: the suffix is added when
\* the other side has a column of the same label that is not the key.
MergedLabel(c, other, on, suffix) ==
  IF c # on /\ c \in other.columns THEN c \o suffix ELSE c

\* The _merge indicator of a joined row, from the sides its key occurs in.
IndicatorLeftBiased(inLeft, inRight) == IF inLeft THEN "both" ELSE "right_only"

Indicator(inLeft, inRight) ==
  IF inLeft /\ inRight THEN "both"
  ELSE IF inLeft THEN "left_only"
  ELSE "right_only"

\* The pairs <<i, j>> of the nl left rows and nr right rows of one key that an
\* outer join emits: every pair; <<i, 0>> or <<0, j>> where a side has none.
MatchedPairsFirstOnly(nl, nr) ==
  IF nr = 0 THEN [i \in 1..nl |-> <<i, 0>>]
  ELSE IF nl = 0 THEN [j \in 1..nr |-> <<0, j>>]
  ELSE [i \in 1..nl |-> <<i, 1>>]

MatchedPairs(nl, nr) ==
  IF nr = 0 THEN [i \in 1..nl |-> <<i, 0>>]
  ELSE IF nl = 0 THEN [j \in 1..nr |-> <<0, j>>]
  ELSE [n \in 1..(nl * nr) |-> <<((n - 1) \div nr) + 1, ((n - 1) % nr) + 1>>]

\* The labels of the join: the key, each side's other columns, the indicator.
MergedColumns(left, right, on) ==
  {on, "_merge"}
    \cup {MergedLabel(c, right, on, "_db") : c \in left.columns \ {on}}
    \cup {MergedLabel(c, left, on, "_csv") : c \in right.columns \ {on}}

\* One joined row; a side that has no row for the key passes has = FALSE and
\* its fields are NaN.
JoinedRow(left, right, on, k, lrow, hasL, rrow, hasR) ==
  LET lcols == left.columns \ {on}
      rcols == right.columns \ {on}
  IN [m \in MergedColumns(left, right, on) |->
        IF m = on THEN k
        ELSE IF m = "_merge" THEN Indicator(hasL, hasR)
        ELSE IF \E c \in lcols : MergedLabel(c, right, on, "_db") = m
        THEN IF hasL
             THEN lrow[CHOOSE c \in lcols : MergedLabel(c, right, on, "_db") = m]
             ELSE NaN
        ELSE IF hasR
             THEN rrow[CHOOSE c \in rcols : MergedLabel(c, left, on, "_csv") = m]
             ELSE NaN]

RowsWithKey(frame, on, k) == SelectSeq(frame.rows, LAMBDA r : r[on] = k)

\* The joined rows of the keys SortedKeys[n], SortedKeys[n + 1], ...
RECURSIVE JoinFrom(_, _, _, _)
JoinFrom(left, right, on, n) ==
  IF n > Len(SortedKeys) THEN <<>>
  ELSE LET k == SortedKeys[n]
           L == RowsWithKey(left, on, k)
           R == RowsWithKey(right, on, k)
           pairs == MatchedPairs(Len(L), Len(R))
           block ==
             [p \in 1..Len(pairs) |->
                JoinedRow(left, right, on, k,
                          IF pairs[p][1] = 0 THEN << >> ELSE L[pairs[p][1]],
                          pairs[p][1] # 0,
                          IF pairs[p][2] = 0 THEN << >> ELSE R[pairs[p][2]],
                          pairs[p][2] # 0)]
       IN block \o JoinFrom(left, right, on, n + 1)

\* merge_dataframes: [raised |-> the exception type or "none", ret |-> frame]
merge_dataframes(db, csv, on) ==
  IF on \notin db.columns \/ on \notin csv.columns
  THEN [raised |-> "KeyError", ret |-> NoFrame]
  ELSE [raised |-> "none",
        ret |-> [columns |-> MergedColumns(db, csv, on),
                 rows |-> JoinFrom(db, csv, on, 1)]]

-----------------------------------------------------------------------------
(* The classifier: identify_discrepancies.  A bucket is merged_df[mask]:   *)
(* the index labels (row positions of merged_df) the mask selects.         *)

\* frame[mask], mask a boolean per row
Masked(frame, mask) ==
  SelectSeq([i \in 1..Len(frame.rows) |-> i], LAMBDA i : mask[i])

missing_in_processor(merged) ==
  Masked(merged, [i \in 1..Len(merged.rows) |->
                    merged.rows[i]["_merge"] = "left_only"])

missing_in_db_wrong_tag(merged) ==
  Masked(merged, [i \in 1..Len(merged.rows) |->
                    merged.rows[i]["_merge"] = "left_only"])

missing_in_db(merged) ==
  Masked(merged, [i \in 1..Len(merged.rows) |->
                    merged.rows[i]["_merge"] = "right_only"])

amount_mismatches(merged, a_db, a_csv) ==
  Masked(merged, [i \in 1..Len(merged.rows) |->
                    /\ merged.rows[i]["_merge"] = "both"
                    /\ PdNe(merged.rows[i][a_db], merged.rows[i][a_csv])])

status_candidates == <<"status", "status_db", "status_csv">>

\* next((col for col in status_candidates if col in merged_df.columns), None)
found_status(merged) ==
  SelectSeq(status_candidates, LAMBDA c : c \in merged.columns)

failed_payments(merged) ==
  IF found_status(merged) # <<>>
  THEN Masked(merged, [i \in 1..Len(merged.rows) |->
                         PdEq(merged.rows[i][Head(found_status(merged))], "failed")])
  ELSE <<>>

\* identify_discrepancies: [raised, ret, warned]; the amount masks raise
\* KeyError when merged_df lacks one of the amount columns.
identify_discrepancies(merged, a_db, a_csv, s_db) ==
  IF a_db \notin merged.columns \/ a_csv \notin merged.columns
  THEN [raised |-> "KeyError", ret |-> [computed |-> FALSE], warned |-> FALSE]
  ELSE [raised |-> "none",
        ret |-> [computed |-> TRUE,
                 missing_in_processor |-> missing_in_processor(merged),
                 missing_in_db |-> missing_in_db(merged),
                 amount_mismatches |-> amount_mismatches(merged, a_db, a_csv),
                 failed_payments |-> failed_payments(merged)],
        warned |-> found_status(merged) = <<>>]

-----------------------------------------------------------------------------
(* Idle values of the three groups of variables: a run of one component    *)
(* leaves the other components' variables at these.                        *)

NoExc == [type |-> "none", origin |-> "none"]
NoArtifact == [written |-> FALSE, sheets |-> {}]
NoBuckets == [computed |-> FALSE]

WorkflowIdle ==
  /\ pc = "idle"
  /\ db_df = NoFrame /\ csv_df = NoFrame
  /\ db_df_clean = NoFrame /\ csv_df_clean = NoFrame
  /\ merged_df = NoFrame
  /\ discrepancies = NoBuckets
  /\ log = <<>>
  /\ exc = NoExc
  /\ exit_status = "running"
  /\ artifact = NoArtifact

CleanIdle ==
  /\ clean_pc = "idle"
  /\ df = NoFrame
  /\ column_map = db_column_map
  /\ clean_ret = NoFrame
  /\ reclean_ret = NoFrame

AlertIdle ==
  /\ alert_pc = "idle"
  /\ subject = "" /\ body = ""
  /\ loop = "none"
  /\ task = "none"
  /\ alert_log = <<>>
  /\ alert_raised = FALSE
  /\ outbox = {}

-----------------------------------------------------------------------------
(* The normalizer alone: clean_and_transform applied to a raw record set,  *)
(* then to its own result.                                                 *)

\* Raw label sets: the ledger table and the report header as
\* setup_database.py writes them, and the same fields under labels with
\* capitals and surrounding blanks.
DbLabelSets ==
  { {"transaction_id", "sale_date", "product_id", "amount"},
    {"transaction_id", "amount", "status", "date"},
    {"Transaction_ID", " Amount ", "Status", "Date "} }

CsvLabelSets ==
  { {"payment_gateway_id", "transaction_date", "status", "charged_amount"},
    {" Payment_Gateway_ID", "Transaction_Date ", "STATUS", "charged_amount"} }

CleanKeys == {"T1"}
CleanAmounts == {"50.0", NaN}
CleanStatuses == {"completed"}
CleanDates == {"2024-01-15", "2024-13-45", "not a date", NaN}

CleanFrames(labelSets, map) ==
  UNION {FramesOver(cols, map, CleanKeys, CleanAmounts, CleanStatuses,
                    CleanDates, MaxCleanRows) : cols \in labelSets}

InitClean ==
  /\ WorkflowIdle
  /\ AlertIdle
  /\ clean_pc = "call"
  /\ \/ column_map = db_column_map /\ df \in CleanFrames(DbLabelSets, db_column_map)
     \/ column_map = csv_column_map /\ df \in CleanFrames(CsvLabelSets, csv_column_map)
  /\ clean_ret = NoFrame
  /\ reclean_ret = NoFrame

\* clean_ret = clean_and_transform(df, column_map, date_columns)
Normalize ==
  /\ clean_pc = "call"
  /\ LET r == clean_and_transform(df, column_map, date_columns)
     IN /\ df' = r.arg
        /\ clean_ret' = r.ret
  /\ clean_pc' = "normalized"
  /\ UNCHANGED <<column_map, reclean_ret, wfVars, alertVars>>

\* reclean_ret = clean_and_transform(clean_ret, column_map, date_columns)
Renormalize ==
  /\ clean_pc = "normalized"
  /\ LET r == clean_and_transform(clean_ret, column_map, date_columns)
     IN /\ clean_ret' = r.arg
        /\ reclean_ret' = r.ret
  /\ clean_pc' = "renormalized"
  /\ UNCHANGED <<df, column_map, wfVars, alertVars>>

NextClean == Normalize \/ Renormalize

SpecClean == InitClean /\ [][NextClean]_vars

\* C6: clean_and_transform has no side effect on its argument: the record set
\* passed in has the same field names and values after the call as before.
C6_ArgumentUntouched == [][clean_pc = "call" => df' = df]_vars

\* C9: clean_and_transform is idempotent: applied to an already normalized
\* record set, with the same mapping and date fields, it returns a record set
\* with the same field names and the same values.
C9_Idempotent == [][clean_pc = "normalized" => reclean_ret' = clean_ret]_vars

\* C9 witness: a report set whose labels were renamed and whose date column
\* holds a parsed date and a date that failed to parse, normalized twice.
C9_Witness ==
  /\ clean_pc = "renormalized"
  /\ column_map = csv_column_map
  /\ "transaction_id" \in reclean_ret.columns
  /\ "date" \in reclean_ret.columns
  /\ \E i \in 1..Len(reclean_ret.rows) : IsTimestamp(reclean_ret.rows[i]["date"])
  /\ \E i \in 1..Len(reclean_ret.rows) : reclean_ret.rows[i]["date"] = NaT


-----------------------------------------------------------------------------
(* The main workflow: the body of  if __name__ == "__main__":  one action  *)
(* per statement that can fail or log.                                     *)

Logged(level, msg) == [level |-> level, msg |-> msg]

StartMsg == Logged("INFO", "Starting daily financial reconciliation workflow.")
DbKeyMissingMsg == Logged("ERROR", "Merge key not found in DB DataFrame columns")
CsvKeyMissingMsg == Logged("ERROR", "Merge key not found in CSV DataFrame columns")
NoStatusMsg == Logged("WARNING", "No status column found for failed payments.")
ReportMsg == Logged("INFO", "Excel report generated")
CompletedMsg == Logged("INFO", "Reconciliation workflow completed successfully.")
FailureMsg(e) == Logged("ERROR", "Error during reconciliation workflow: " \o e.type)

Raised(type, origin) == [type |-> type, origin |-> origin]

\* What the ledger table and the report file may hold.
WfDbLabelSets ==
  { {"transaction_id", "sale_date", "product_id", "amount"},
    {"transaction_id", "amount", "status", "date"},
    {"sale_date", "amount"},
    {"transaction_id", "sale_date"},
    {"Transaction_ID", " Amount "} }

WfCsvLabelSets ==
  { {"payment_gateway_id", "transaction_date", "status", "charged_amount"},
    {"transaction_date", "status", "charged_amount"},
    {"payment_gateway_id", "charged_amount"},
    {" Payment_Gateway_ID", "STATUS", "Charged_Amount "} }

WfKeys == {"T1", "T2"}
WfAmounts == {"50.0", "55.0", NaN}
WfStatuses == {"completed", "failed"}
WfDates == {"2024-01-15"}

DbSources ==
  UNION {FramesOver(cols, db_column_map, WfKeys, WfAmounts, WfStatuses, WfDates,
                    MaxRows) : cols \in WfDbLabelSets}

CsvSources ==
  UNION {FramesOver(cols, csv_column_map, WfKeys, WfAmounts, WfStatuses, WfDates,
                    MaxRows) : cols \in WfCsvLabelSets}

Init ==
  /\ pc = "start"
  /\ db_df = NoFrame /\ csv_df = NoFrame
  /\ db_df_clean = NoFrame /\ csv_df_clean = NoFrame
  /\ merged_df = NoFrame
  /\ discrepancies = NoBuckets
  /\ log = <<>>
  /\ exc = NoExc
  /\ exit_status = "running"
  /\ artifact = NoArtifact
  /\ CleanIdle
  /\ AlertIdle

\* logging.info("Starting daily financial reconciliation workflow.")
Begin ==
  /\ pc = "start"
  /\ log' = Append(log, StartMsg)
  /\ pc' = "load_db"
  /\ UNCHANGED <<db_df, csv_df, db_df_clean, csv_df_clean, merged_df,
                 discrepancies, exc, exit_status, artifact, cleanVars, alertVars>>

\* db_df = load_database_data(db_path, db_table)
LoadDb ==
  /\ pc = "load_db"
  /\ \E f \in DbSources : db_df' = f
  /\ pc' = "load_csv"
  /\ UNCHANGED <<csv_df, db_df_clean, csv_df_clean, merged_df, discrepancies,
                 log, exc, exit_status, artifact, cleanVars, alertVars>>

\* sqlite3.connect / pd.read_sql raise: no such file, no such table
LoadDbFails ==
  /\ pc = "load_db"
  /\ exc' = Raised("DatabaseError", "load_database_data")
  /\ pc' = "except"
  /\ UNCHANGED <<db_df, csv_df, db_df_clean, csv_df_clean, merged_df,
                 discrepancies, log, exit_status, artifact, cleanVars, alertVars>>

\* csv_df = load_csv_data(csv_path)
LoadCsv ==
  /\ pc = "load_csv"
  /\ \E f \in CsvSources : csv_df' = f
  /\ pc' = "clean_db"
  /\ UNCHANGED <<db_df, db_df_clean, csv_df_clean, merged_df, discrepancies,
                 log, exc, exit_status, artifact, cleanVars, alertVars>>

\* pd.read_csv raises: no such file
LoadCsvFails ==
  /\ pc = "load_csv"
  /\ exc' = Raised("FileNotFoundError", "load_csv_data")
  /\ pc' = "except"
  /\ UNCHANGED <<db_df, csv_df, db_df_clean, csv_df_clean, merged_df,
                 discrepancies, log, exit_status, artifact, cleanVars, alertVars>>

\* db_df_clean = clean_and_transform(db_df, db_column_map, date_columns)
CleanDb ==
  /\ pc = "clean_db"
  /\ LET r == clean_and_transform(db_df, db_column_map, date_columns)
     IN /\ db_df' = r.arg
        /\ db_df_clean' = r.ret
  /\ pc' = "clean_csv"
  /\ UNCHANGED <<csv_df, csv_df_clean, merged_df, discrepancies, log, exc,
                 exit_status, artifact, cleanVars, alertVars>>

\* csv_df_clean = clean_and_transform(csv_df, csv_column_map, date_columns)
CleanCsv ==
  /\ pc = "clean_csv"
  /\ LET r == clean_and_transform(csv_df, csv_column_map, date_columns)
     IN /\ csv_df' = r.arg
        /\ csv_df_clean' = r.ret
  /\ pc' = "check_key"
  /\ UNCHANGED <<db_df, db_df_clean, merged_df, discrepancies, log, exc,
                 exit_status, artifact, cleanVars, alertVars>>

\* The two  if merge_key not in ... .columns: logging.error(...)  statements.
CheckKey ==
  /\ pc = "check_key"
  /\ log' = log
            \o (IF merge_key \notin db_df_clean.columns
                THEN <<DbKeyMissingMsg>> ELSE <<>>)
            \o (IF merge_key \notin csv_df_clean.columns
                THEN <<CsvKeyMissingMsg>> ELSE <<>>)
  /\ pc' = "merge"
  /\ UNCHANGED <<db_df, csv_df, db_df_clean, csv_df_clean, merged_df,
                 discrepancies, exc, exit_status, artifact, cleanVars, alertVars>>

\* merged_df = merge_dataframes(db_df_clean, csv_df_clean, merge_key)
Merge ==
  /\ pc = "merge"
  /\ LET r == merge_dataframes(db_df_clean, csv_df_clean, merge_key)
     IN IF r.raised = "none"
        THEN /\ merged_df' = r.ret
             /\ pc' = "identify"
             /\ exc' = exc
        ELSE /\ merged_df' = merged_df
             /\ pc' = "except"
             /\ exc' = Raised(r.raised, "merge_dataframes")
  /\ UNCHANGED <<db_df, csv_df, db_df_clean, csv_df_clean, discrepancies, log,
                 exit_status, artifact, cleanVars, alertVars>>

\* discrepancies = identify_discrepancies(merged_df, amount_col_db,
\*                                        amount_col_csv, status_col_db)
Identify ==
  /\ pc = "identify"
  /\ LET r == identify_discrepancies(merged_df, amount_col_db, amount_col_csv,
                                     status_col_db)
     IN IF r.raised = "none"
        THEN /\ discrepancies' = r.ret
             /\ log' = IF r.warned THEN Append(log, NoStatusMsg) ELSE log
             /\ pc' = "report"
             /\ exc' = exc
        ELSE /\ discrepancies' = discrepancies
             /\ log' = log
             /\ pc' = "except"
             /\ exc' = Raised(r.raised, "identify_discrepancies")
  /\ UNCHANGED <<db_df, csv_df, db_df_clean, csv_df_clean, merged_df,
                 exit_status, artifact, cleanVars, alertVars>>

\* generate_excel_report(discrepancies, report_dir, report_prefix): one sheet
\* per bucket, saved by wb.save(filepath).
Report ==
  /\ pc = "report"
  /\ artifact' = [written |-> TRUE,
                  sheets |-> DOMAIN discrepancies \ {"computed"}]
  /\ log' = Append(log, ReportMsg)
  /\ pc' = "complete"
  /\ UNCHANGED <<db_df, csv_df, db_df_clean, csv_df_clean, merged_df,
                 discrepancies, exc, exit_status, cleanVars, alertVars>>

\* wb.save raises: the report directory is missing or not writable
ReportFails ==
  /\ pc = "report"
  /\ exc' = Raised("OSError", "generate_excel_report")
  /\ pc' = "except"
  /\ UNCHANGED <<db_df, csv_df, db_df_clean, csv_df_clean, merged_df,
                 discrepancies, log, exit_status, artifact, cleanVars, alertVars>>

\* logging.info("Reconciliation workflow completed successfully.")
Complete ==
  /\ pc = "complete"
  /\ log' = Append(log, CompletedMsg)
  /\ pc' = "exit"
  /\ UNCHANGED <<db_df, csv_df, db_df_clean, csv_df_clean, merged_df,
                 discrepancies, exc, exit_status, artifact, cleanVars, alertVars>>

\* except Exception as e: logging.error(..., exc_info=True)
HandleException ==
  /\ pc = "except"
  /\ log' = Append(log, FailureMsg(exc))
  /\ pc' = "exit"
  /\ UNCHANGED <<db_df, csv_df, db_df_clean, csv_df_clean, merged_df,
                 discrepancies, exc, exit_status, artifact, cleanVars, alertVars>>

\* The script runs off its end, after the try block or after the handler:
\* the interpreter exits with status 0.
Exit ==
  /\ pc = "exit"
  /\ exit_status' = "0"
  /\ pc' = "exited"
  /\ UNCHANGED <<db_df, csv_df, db_df_clean, csv_df_clean, merged_df,
                 discrepancies, log, exc, artifact, cleanVars, alertVars>>

Next ==
  \/ Begin
  \/ LoadDb \/ LoadDbFails
  \/ LoadCsv \/ LoadCsvFails
  \/ CleanDb \/ CleanCsv
  \/ CheckKey
  \/ Merge
  \/ Identify
  \/ Report \/ ReportFails
  \/ Complete
  \/ HandleException
  \/ Exit

Spec == Init /\ [][Next]_vars

-----------------------------------------------------------------------------
(* The matcher and the classifier alone: the workflow from the join on,    *)
(* for normalized sets of up to MaxJoinRows rows in all.  The sources came *)
(* with canonical labels and no date column, so each loaded object equals  *)
(* its normalized copy and the key check logged nothing.                   *)

JoinKeys == {"T1", "T2"}
JoinAmounts == {"50.0", "55.0"}
JoinStatuses == {"completed", "failed"}

JoinLabelSets ==
  { {"transaction_id", "amount"}, {"transaction_id", "amount", "status"} }

JoinRows(cols) ==
  RowsOver(cols, db_column_map, JoinKeys, JoinAmounts, JoinStatuses, {NaT})

InitMatch ==
  /\ pc = "merge"
  /\ \E dcols \in JoinLabelSets, ccols \in JoinLabelSets :
       \E nd \in 0..MaxJoinRows :
         \E nc \in 0..(MaxJoinRows - nd) :
           /\ db_df_clean \in {[columns |-> dcols, rows |-> r] :
                                 r \in [1..nd -> JoinRows(dcols)]}
           /\ csv_df_clean \in {[columns |-> ccols, rows |-> r] :
                                  r \in [1..nc -> JoinRows(ccols)]}
  /\ db_df = db_df_clean
  /\ csv_df = csv_df_clean
  /\ merged_df = NoFrame
  /\ discrepancies = NoBuckets
  /\ log = <<StartMsg>>
  /\ exc = NoExc
  /\ exit_status = "running"
  /\ artifact = NoArtifact
  /\ CleanIdle
  /\ AlertIdle

NextMatch == Merge \/ Identify

SpecMatch == InitMatch /\ [][NextMatch]_vars

-----------------------------------------------------------------------------
(* Properties of the matcher and the classifier.                           *)

\* merge_dataframes has returned / identify_discrepancies has returned
Joined == "_merge" \in merged_df.columns
Classified == discrepancies.computed

KeysOf(frame) == {frame.rows[i][merge_key] : i \in 1..Len(frame.rows)}
LedgerKeys == KeysOf(db_df_clean)
ReportKeys == KeysOf(csv_df_clean)

Tagged(tag) == {i \in 1..Len(merged_df.rows) : merged_df.rows[i]["_merge"] = tag}

UniqueKeys(frame) ==
  \A i, j \in 1..Len(frame.rows) :
    frame.rows[i][merge_key] = frame.rows[j][merge_key] => i = j

\* The tag of every joined row follows from the sides its key occurs in.
TagsFollowKeys ==
  \A i \in 1..Len(merged_df.rows) :
    LET k == merged_df.rows[i][merge_key]
        tag == merged_df.rows[i]["_merge"]
    IN /\ tag \in {"left_only", "right_only", "both"}
       /\ tag = "left_only" <=> (k \in LedgerKeys /\ k \notin ReportKeys)
       /\ tag = "right_only" <=> (k \notin LedgerKeys /\ k \in ReportKeys)
       /\ tag = "both" <=> (k \in LedgerKeys /\ k \in ReportKeys)

\* C3 as stated: the tag of every joined row is decided by key presence
\* alone, and for disjoint key sets L and R the join has exactly |L| rows
\* tagged left_only, |R| rows tagged right_only and none tagged both.
C3_Original ==
  Joined =>
    /\ TagsFollowKeys
    /\ LedgerKeys \cap ReportKeys = {} =>
         /\ Cardinality(Tagged("left_only")) = Cardinality(LedgerKeys)
         /\ Cardinality(Tagged("right_only")) = Cardinality(ReportKeys)
         /\ Tagged("both") = {}

\* C3 amended: the tag of every joined row is decided by key presence alone,
\* and for disjoint key sets the join has one left_only row per ledger row,
\* one right_only row per report row and no row tagged both; the counts are
\* |L| and |R| when no key repeats within a side.
C3_TagsByKeyPresence ==
  Joined =>
    /\ TagsFollowKeys
    /\ LedgerKeys \cap ReportKeys = {} =>
         /\ Cardinality(Tagged("left_only")) = Len(db_df_clean.rows)
         /\ Cardinality(Tagged("right_only")) = Len(csv_df_clean.rows)
         /\ Tagged("both") = {}
         /\ UniqueKeys(db_df_clean) =>
              Cardinality(Tagged("left_only")) = Cardinality(LedgerKeys)
         /\ UniqueKeys(csv_df_clean) =>
              Cardinality(Tagged("right_only")) = Cardinality(ReportKeys)

\* C3 witness: disjoint key sets, a ledger key on two rows, joined.
C3_Witness ==
  /\ Joined
  /\ LedgerKeys \cap ReportKeys = {}
  /\ ~UniqueKeys(db_df_clean)
  /\ Tagged("left_only") # {}
  /\ Tagged("right_only") # {}

\* A joined row carries the fields of row r of one side.
Carries(m, r, own, other, suffix) ==
  /\ m[merge_key] = r[merge_key]
  /\ \A c \in own.columns \ {merge_key} :
       m[MergedLabel(c, other, merge_key, suffix)] = r[c]

\* C5: merge_dataframes loses no input row: every row of the ledger set and
\* every row of the report set, rows with a duplicated key included, has its
\* fields on at least one joined row.
C5_NoRowLost ==
  Joined =>
    /\ \A i \in 1..Len(db_df_clean.rows) :
         \E j \in 1..Len(merged_df.rows) :
           Carries(merged_df.rows[j], db_df_clean.rows[i],
                   db_df_clean, csv_df_clean, "_db")
    /\ \A i \in 1..Len(csv_df_clean.rows) :
         \E j \in 1..Len(merged_df.rows) :
           Carries(merged_df.rows[j], csv_df_clean.rows[i],
                   csv_df_clean, db_df_clean, "_csv")

\* C5 witness: two different report rows share a key the ledger holds too.
C5_Witness ==
  /\ Joined
  /\ \E i, j \in 1..Len(csv_df_clean.rows) :
       /\ i # j
       /\ csv_df_clean.rows[i] # csv_df_clean.rows[j]
       /\ csv_df_clean.rows[i][merge_key] = csv_df_clean.rows[j][merge_key]
       /\ csv_df_clean.rows[i][merge_key] \in LedgerKeys

BucketTotal ==
  Len(discrepancies.missing_in_processor) + Len(discrepancies.missing_in_db)
    + Cardinality(Tagged("both"))

\* C8 as stated: for any ledger set and report set, |missing_in_processor|
\* + |missing_in_db| + |rows tagged both| is the number of distinct keys.
C8_Original ==
  Classified => BucketTotal = Cardinality(LedgerKeys \cup ReportKeys)

\* C8 amended: the sum is the number of distinct keys when no key occurs on
\* more than one row of a side, and larger than it otherwise.
C8_PartitionCheck ==
  Classified =>
    /\ BucketTotal >= Cardinality(LedgerKeys \cup ReportKeys)
    /\ BucketTotal = Cardinality(LedgerKeys \cup ReportKeys)
         <=> (UniqueKeys(db_df_clean) /\ UniqueKeys(csv_df_clean))

\* C8 witness: a key on both sides and a key of the ledger alone, none
\* repeated, classified.
C8_Witness ==
  /\ Classified
  /\ UniqueKeys(db_df_clean) /\ UniqueKeys(csv_df_clean)
  /\ Tagged("both") # {}
  /\ discrepancies.missing_in_processor # <<>>

\* C2: every joined row whose status is "failed" under any status field
\* present in the joined set (status, status_db, status_csv) is in
\* failed_payments.
C2_FailedUnderAnyVariant ==
  Classified =>
    \A i \in 1..Len(merged_df.rows) :
      (\E c \in Range(status_candidates) \cap merged_df.columns :
         merged_df.rows[i][c] = "failed")
        => i \in Range(discrepancies.failed_payments)

\* C4: a joined row of a key present on both sides is in amount_mismatches
\* exactly when the ledger amount differs from the report amount, never in
\* missing_in_processor or missing_in_db, and in failed_payments only if its
\* status is "failed".
C4_MismatchIffAmountsDiffer ==
  Classified =>
    \A i \in Tagged("both") :
      /\ i \in Range(discrepancies.amount_mismatches)
           <=> merged_df.rows[i][amount_col_db] # merged_df.rows[i][amount_col_csv]
      /\ i \notin Range(discrepancies.missing_in_processor)
      /\ i \notin Range(discrepancies.missing_in_db)
      /\ i \in Range(discrepancies.failed_payments) =>
           \E c \in Range(status_candidates) \cap merged_df.columns :
             merged_df.rows[i][c] = "failed"

-----------------------------------------------------------------------------
(* Properties of the main workflow.                                        *)

KeyMissingLogged ==
  DbKeyMissingMsg \in Range(log) \/ CsvKeyMissingMsg \in Range(log)

\* C1: when the join key is absent from a normalized set the run reports it
\* and aborts before the join: merge_dataframes is never called after the
\* missing-key check has failed.
C1_NoJoinAfterFailedCheck ==
  [][(pc = "merge" /\ pc' # "merge") => ~KeyMissingLogged]_vars

\* C7: a failure raised in any stage is caught, logged, and ends the run with
\* a non-zero exit status and no output artifact; the exit status is zero
\* only if every stage succeeded.
C7_FailureExitsNonZero ==
  pc = "exited" =>
    /\ exc # NoExc =>
         /\ FailureMsg(exc) \in Range(log)
         /\ exit_status # "0"
         /\ ~artifact.written
    /\ exit_status = "0" => exc = NoExc

-----------------------------------------------------------------------------
(* The alert task: send_alert_email(subject, body) in alerts.py.           *)

sender == "alerts@example.com"
recipients == "ops@example.com, finance@example.com"

Subjects ==
  {"Reconciliation failed", "Amount mismatches found", "Report ready", ""}
Bodies == {"See reconciliation.log", "2 discrepancies", ""}

AttemptMsg(subj) == Logged("INFO", "Attempting to send alert email: " \o subj)
SentMsg == Logged("INFO", "Alert email sent successfully.")
NotSentMsg == Logged("ERROR", "Failed to send alert email")

\* The EmailMessage _send() builds.
Message(subj, text) ==
  [From |-> sender, To |-> recipients, Subject |-> subj, Content |-> text]

InitAlert ==
  /\ WorkflowIdle
  /\ CleanIdle
  /\ alert_pc = "call"
  /\ subject \in Subjects
  /\ body \in Bodies
  /\ loop \in {"none", "running"}
  /\ task = "none"
  /\ alert_log = <<>>
  /\ alert_raised = FALSE
  /\ outbox = {}

\* logging.info(f"Attempting to send alert email: {subject}")
Attempt ==
  /\ alert_pc = "call"
  /\ alert_log' = Append(alert_log, AttemptMsg(subject))
  /\ alert_pc' = "dispatch"
  /\ UNCHANGED <<subject, body, loop, task, alert_raised, outbox, wfVars, cleanVars>>

\* loop and loop.is_running():  task = loop.create_task(_send())
ScheduleTask ==
  /\ alert_pc = "dispatch"
  /\ loop = "running"
  /\ task' = "pending"
  /\ alert_pc' = "log_sent"
  /\ UNCHANGED <<subject, body, loop, alert_log, alert_raised, outbox, wfVars, cleanVars>>

\* else: asyncio.run(_send()), and aiosmtplib.send delivers
RunSends ==
  /\ alert_pc = "dispatch"
  /\ loop = "none"
  /\ task' = "sent"
  /\ outbox' = outbox \cup {Message(subject, body)}
  /\ alert_pc' = "log_sent"
  /\ UNCHANGED <<subject, body, loop, alert_log, alert_raised, wfVars, cleanVars>>

\* else: asyncio.run(_send()), and aiosmtplib.send raises
RunFails ==
  /\ alert_pc = "dispatch"
  /\ loop = "none"
  /\ task' = "failed"
  /\ alert_pc' = "except"
  /\ UNCHANGED <<subject, body, loop, alert_log, alert_raised, outbox, wfVars, cleanVars>>

\* logging.info("Alert email sent successfully.")
LogSent ==
  /\ alert_pc = "log_sent"
  /\ alert_log' = Append(alert_log, SentMsg)
  /\ alert_pc' = "returned"
  /\ UNCHANGED <<subject, body, loop, task, alert_raised, outbox, wfVars, cleanVars>>

\* except Exception as e: logging.error(f"Failed to send alert email: {e}")
LogNotSent ==
  /\ alert_pc = "except"
  /\ alert_log' = Append(alert_log, NotSentMsg)
  /\ alert_pc' = "returned"
  /\ UNCHANGED <<subject, body, loop, task, alert_raised, outbox, wfVars, cleanVars>>

\* The event loop runs the scheduled task once its caller has yielded, which
\* is after send_alert_email returned; aiosmtplib.send delivers.
TaskSends ==
  /\ alert_pc = "returned"
  /\ task = "pending"
  /\ task' = "sent"
  /\ outbox' = outbox \cup {Message(subject, body)}
  /\ UNCHANGED <<alert_pc, subject, body, loop, alert_log, alert_raised, wfVars, cleanVars>>

\* The event loop runs the scheduled task and aiosmtplib.send raises: the
\* exception stays in the task object, which nothing awaits.
TaskFails ==
  /\ alert_pc = "returned"
  /\ task = "pending"
  /\ task' = "failed"
  /\ UNCHANGED <<alert_pc, subject, body, loop, alert_log, alert_raised, outbox, wfVars, cleanVars>>

NextAlert ==
  \/ Attempt
  \/ ScheduleTask
  \/ RunSends \/ RunFails
  \/ LogSent \/ LogNotSent
  \/ TaskSends \/ TaskFails

SpecAlert == InitAlert /\ [][NextAlert]_vars

\* C10: every delivery failure is logged and none reaches the caller, on the
\* synchronous path and on the scheduled-task path, and the success message
\* is logged only for an alert whose delivery did not fail.
C10_FailuresLoggedNotRaised ==
  /\ ~alert_raised
  /\ (alert_pc = "returned" /\ task = "failed") => NotSentMsg \in Range(alert_log)
  /\ SentMsg \in Range(alert_log) => task # "failed"

=============================================================================
